---- MODULE Spec2Model ----
(***************************************************************************)
(* Model of the synthetic employment / investment dataset generators of    *)
(* HugoPfeffer/rfb-poc: the "generators" package (EmploymentDataGenerator, *)
(* InvestmentDataGenerator, FraudScenarioGenerator) and the "controllers"  *)
(* package (EmploymentGenerator, InvestmentGenerator).                     *)
(*                                                                         *)
(* Numbers.  Python floats are modelled in exact decimal fixed point:      *)
(*   - fractions of 1.0 (allocations, ratios) in ticks of 1e-5, so that    *)
(*     round(x, 4) is rounding to a multiple of 10 ticks and an exact tie  *)
(*     (x5 in the fifth decimal) is visible;                               *)
(*   - money in mills (1e-3), so that round(x, 2) is rounding to a         *)
(*     multiple of 10 mills.                                               *)
(* Python's round() and numpy's round both round exact ties to even.       *)
(***************************************************************************)
EXTENDS Integers, Sequences, FiniteSets, TLC

VARIABLES
    assetClasses,   \* self.asset_classes of the sampler under test
    variant,        \* which _generate_allocation: "generators" | "controllers"
    attempt,        \* loop variable of `for attempt in range(MAX_ATTEMPTS)`
    allocPc,        \* "running" | "returned" | "raised"
    allocation,     \* the returned allocation (<<>> while none)
    allocError,     \* the exception type raised (or "none")
    adjusted,       \* the returned allocation went through the residual adjustment
    kind,           \* the generator class under test
    size,           \* the argument of generate(size)
    prng,           \* the output stream of the generator for each seed
    npRandom,       \* the global numpy source: [seed, pos]
    rngPos,         \* positions of the instance's own RandomState objects
    run,            \* 1: the first instance generates, 2: a second one, 3: the first again
    pc,             \* the stage of generate() that runs next
    data,           \* the table under construction (rows in index order)
    returned,       \* what generate returned, per run (<<>> while nothing)
    genError,       \* the exception generate raised, per run ("none" while none)
    fraudProbability, \* config fraud_scenarios.probability, in thousandths
    saved,          \* what save_industry_dataset did: the file written, or the error
    validator,      \* the validate under test ("none" while there is none)
    subject,        \* what it is applied to: None, a list or a frame
    outcome,        \* what validate did (pending before the call)
    config,         \* the required keys the configuration of a constructor lacks
    instance,       \* what the constructor did: an object, or the error raised
    datasets,       \* self._datasets: the frame stored under each name, and when
    call,           \* the last call of save, save_to_dataset, get_dataset or sample_data
    files,          \* the configuration file at each path
    manager,        \* config_manager: [config (_config), path (_config_path)]
    loaded,         \* the configuration of the last load that did not raise
    reading,        \* the last read of config_manager.config
    generator       \* a generator built with an explicit configuration

allocVars == <<assetClasses, variant, attempt, allocPc, allocation, allocError, adjusted>>

pipeVars == <<kind, size, prng, npRandom, rngPos, run, pc, data, returned, genError,
              fraudProbability, saved>>

valVars == <<validator, subject, outcome>>

cfgVars == <<files, manager, loaded, reading, generator>>

ctorVars == <<config, instance, cfgVars>>

storeVars == <<datasets, call>>

vars == <<allocVars, pipeVars, valVars, ctorVars, storeVars>>

----------------------------------------------------------------------------
(* Bounds of the model *)

\* draws of the sampler lie within MaxK half-quanta (5 ticks) of an end of the range
MaxK == 3

\* a uniform draw is lo + (hi - lo) * u / UMax for u in 0..UMax
UMax == 1

\* generate(size) is called with size in 1..MaxSize
MaxSize == 2

\* a source repeats its first StreamLen outputs
StreamLen == 3

----------------------------------------------------------------------------
(* Arithmetic *)

Abs(x) == IF x < 0 THEN -x ELSE x

Min2(a, b) == IF a <= b THEN a ELSE b

Max2(a, b) == IF a >= b THEN a ELSE b

\* 1.0 in ticks
One == 100000

\* ATOL = 1e-4 in ticks
ATOL == 10

\* MAX_ATTEMPTS = 10
MAX_ATTEMPTS == 10

\* 1 / rtol for numpy.isclose's default rtol = 1e-5
RtolInv == 100000

\* round-half-even of the rational n / d (d > 0) to an integer
RoundDiv(n, d) ==
    LET q == n \div d
        r == n % d
    IN  IF 2 * r < d THEN q
        ELSE IF 2 * r > d THEN q + 1
        ELSE IF q % 2 = 0 THEN q ELSE q + 1

\* round(x, 4) on ticks: to a multiple of 10 ticks
Round4(x) == 10 * RoundDiv(x, 10)

\* np.isclose(a, b, atol=ATOL): |a - b| <= atol + rtol * |b|
IsCloseMut(a, b) == TRUE

IsClose(a, b) == Abs(a - b) * RtolInv <= ATOL * RtolInv + Abs(b)

\* np.random.uniform(lo, hi) for the draw d = [u, off]: the point u/UMax of the
\* range, moved by off ticks and kept inside the range
Uniform(lo, hi, d) ==
    Max2(lo, Min2(hi, lo + ((hi - lo) * d.u) \div UMax + d.off))

----------------------------------------------------------------------------
(* Asset classes: the ordered items of self.asset_classes *)

AssetNames == <<"stocks", "bonds", "cash", "real_estate">>

Assets(s, b, c, r) ==
    << [min |-> s[1], max |-> s[2]], [min |-> b[1], max |-> b[2]],
       [min |-> c[1], max |-> c[2]], [min |-> r[1], max |-> r[2]] >>

\* stocks [0.4,0.8], bonds [0.1,0.4], cash [0.05,0.2], real_estate [0,0.2]
DefaultAssets ==
    Assets(<<40000, 80000>>, <<10000, 40000>>, <<5000, 20000>>, <<0, 20000>>)

\* three categories with minimum 0.4 each: the minimums sum to 1.2
InfeasibleAssets ==
    Assets(<<40000, 80000>>, <<40000, 80000>>, <<40000, 80000>>, <<0, 20000>>)

\* stocks, bonds, cash [0.15625,0.40625], real_estate [0,0.5312]: the last
\* asset can be the largest one
LastLargestAssets ==
    Assets(<<15625, 40625>>, <<15625, 40625>>, <<15625, 40625>>, <<0, 53120>>)

AssetConfigs == {DefaultAssets, InfeasibleAssets, LastLargestAssets}

RECURSIVE SumMin(_, _)
SumMin(assets, from) ==
    IF from > Len(assets) THEN 0
    ELSE assets[from].min + SumMin(assets, from + 1)

RECURSIVE SumSeq(_)
SumSeq(s) == IF s = <<>> THEN 0 ELSE Head(s) + SumSeq(Tail(s))

\* the draws one attempt may make
Offsets == {5 * k : k \in 0..MaxK} \cup {-(5 * k) : k \in 0..MaxK}

Draws == [u : {0, UMax}, off : Offsets]

Failed(used) == [ok |-> FALSE, alloc |-> <<>>, used |-> used, adjusted |-> FALSE]

\* the loop over all assets but the last: rounded allocations, what remains,
\* and how many draws were made
RECURSIVE DrawAllocations(_, _, _, _, _)
DrawAllocations(assets, draws, i, remaining, acc) ==
    IF i = Len(assets)
    THEN [ok |-> TRUE, alloc |-> acc, remaining |-> remaining, used |-> i - 1]
    ELSE LET remaining_min_sum == SumMin(assets, i + 1)
             max_possible == Min2(assets[i].max, remaining - remaining_min_sum)
         IN  IF max_possible < assets[i].min
             THEN [ok |-> FALSE, alloc |-> acc, remaining |-> remaining, used |-> i - 1]
             ELSE LET alloc == Uniform(assets[i].min, max_possible, draws[i])
                  IN  DrawAllocations(assets, draws, i + 1, remaining - alloc,
                                      Append(acc, Round4(alloc)))

\* max(allocation.items(), key=lambda x: x[1])[0]: the first largest asset
LargestAsset(alloc) ==
    CHOOSE i \in 1..Len(alloc) :
        /\ \A j \in 1..Len(alloc) : alloc[j] <= alloc[i]
        /\ \A j \in 1..(i - 1) : alloc[j] < alloc[i]

WithinBoundsAtol(assets, alloc) ==
    \A i \in 1..Len(assets) :
        assets[i].min - ATOL <= alloc[i] /\ alloc[i] <= assets[i].max + ATOL

WithinBounds(assets, alloc) ==
    \A i \in 1..Len(assets) :
        assets[i].min <= alloc[i] /\ alloc[i] <= assets[i].max

\* "Normalize to ensure exact sum of 1.0": the largest allocation takes the residual
Normalize(alloc) ==
    LET total == SumSeq(alloc)
    IN  IF ~IsClose(total, One)
        THEN [alloc EXCEPT ![LargestAsset(alloc)] = Round4(@ + (One - total))]
        ELSE alloc

\* "Final verification"
FinalSumOk(alloc) == IsClose(SumSeq(alloc), One)

\* one pass of the try block of InvestmentDataGenerator._generate_allocation
GenAttempt(assets, draws) ==
    LET d == DrawAllocations(assets, draws, 1, One, <<>>)
    IN  IF ~d.ok THEN Failed(d.used)
        ELSE LET alloc == Append(d.alloc, Round4(d.remaining))
             IN  IF ~WithinBoundsAtol(assets, alloc) THEN Failed(d.used)
                 ELSE LET final == Normalize(alloc)
                      IN  IF ~FinalSumOk(final) THEN Failed(d.used)
                          ELSE [ok |-> TRUE, alloc |-> final, used |-> d.used,
                                adjusted |-> final # alloc]

\* one pass of the try block of InvestmentGenerator._generate_allocation
CtlAttempt(assets, draws) ==
    LET d == DrawAllocations(assets, draws, 1, One, <<>>)
        last == assets[Len(assets)]
    IN  IF ~d.ok THEN Failed(d.used)
        ELSE IF ~(last.min <= d.remaining /\ d.remaining <= last.max)
        THEN Failed(d.used)
        ELSE LET alloc == Append(d.alloc, Round4(d.remaining))
             IN  IF ~IsClose(SumSeq(alloc), One) THEN Failed(d.used)
                 ELSE IF ~WithinBounds(assets, alloc) THEN Failed(d.used)
                 ELSE [ok |-> TRUE, alloc |-> alloc, used |-> d.used,
                       adjusted |-> FALSE]

Attempt(v, assets, draws) ==
    IF v = "generators" THEN GenAttempt(assets, draws) ELSE CtlAttempt(assets, draws)

\* `raise ValueError("Failed to generate valid asset allocation")`
RetryError == "ValueError"

\* `if attempt == MAX_ATTEMPTS - 1`
LastAttemptMut(a) == a = MAX_ATTEMPTS

LastAttempt(a) == a = MAX_ATTEMPTS - 1

----------------------------------------------------------------------------
(* Random sources.  A source seeded with s yields prng[s], and repeats it;  *)
(* the global numpy source that nothing seeded yields prng["os"].           *)

Streams == [1..StreamLen -> 0..UMax]

\* the output at position pos of a source seeded with seed
U(seed, pos) == prng[seed][(pos % Len(prng[seed])) + 1]

\* random_sample(): a value of [0, 1), in thousandths
U01(u) == Min2(999, (1000 * u) \div UMax)

\* a draw of the pipeline is a plain point of the range
Plain(u) == [u |-> u, off |-> 0]

RECURSIVE SumTo(_, _)
SumTo(s, i) == IF i = 0 THEN 0 ELSE s[i] + SumTo(s, i - 1)

\* rng.choice(a, p=p): the first index whose cumulative probability exceeds
\* the sample (p holds weights; SumTo(p, Len(p)) is their total)
Choice(p, u) ==
    LET total == SumTo(p, Len(p))
    IN  CHOOSE i \in 1..Len(p) :
            /\ U01(u) * total < 1000 * SumTo(p, i)
            /\ i = 1 \/ U01(u) * total >= 1000 * SumTo(p, i - 1)

\* rng.choice(a): an index of 1..n
ChoiceUniform(n, u) == ((U01(u) * n) \div 1000) + 1

\* round(n / d, 2) for an amount n / d in mills: to a multiple of 10 mills
RoundMoney(n, d) == 10 * RoundDiv(n, 10 * d)

----------------------------------------------------------------------------
(* Configuration read by the generators (amounts in mills, ratios and       *)
(* probabilities in thousandths)                                            *)

ExperienceLevels == <<"entry", "mid", "senior">>

\* experience_levels.<level>.probability
LevelProbability == <<400, 400, 200>>

Industries == <<"Tech", "Retail">>

\* industry_ranges.json, "min-max" per industry and level
SalaryRange(industry, level) ==
    IF industry = "Tech"
    THEN CASE level = "entry" -> <<30000, 40000>>
           [] level = "mid" -> <<40000, 60000>>
           [] level = "senior" -> <<60000, 80000>>
    ELSE CASE level = "entry" -> <<20000, 30000>>
           [] level = "mid" -> <<30000, 40000>>
           [] level = "senior" -> <<40000, 50000>>

\* industry_ranges.json as the controllers package reads it: one amount
BaseSalary(industry, level) ==
    (SalaryRange(industry, level)[1] + SalaryRange(industry, level)[2]) \div 2

SalaryBands == <<"normal_range", "low_outlier", "high_outlier">>

\* salary_distribution.<band>.probability
BandProbability == <<400, 300, 300>>

\* salary_distribution.<band>.min_ratio, max_ratio
BandRatio == << <<950, 1050>>, <<500, 700>>, <<1300, 1500>> >>

\* fraud_scenarios.probability
FraudProbability == 100

FraudTypes == <<"salary_misreporting", "suspicious_lifestyle", "rapid_transactions">>

\* fraud_scenarios.<type>.probability
FraudTypeProbability == <<500, 300, 200>>

\* experience_levels.<level>.investment_rate
InvestmentRate(level) ==
    CASE level = "entry" -> <<50, 150>>
      [] level = "mid" -> <<100, 250>>
      [] level = "senior" -> <<150, 350>>

\* experience_levels.<level>.luxury_spending
LuxuryRange(level) ==
    CASE level = "entry" -> <<0, 100>>
      [] level = "mid" -> <<50, 150>>
      [] level = "senior" -> <<100, 250>>

\* experience_levels.<level>.travel_spending
TravelRange(level) ==
    CASE level = "entry" -> <<20, 80>>
      [] level = "mid" -> <<50, 120>>
      [] level = "senior" -> <<80, 200>>

\* asset_returns.<asset>: (return, volatility) in units of 1e-4
AssetReturns == << <<1000, 1500>>, <<500, 500>>, <<200, 100>>, <<700, 1000>> >>

----------------------------------------------------------------------------
(* Tables: a sequence of rows, a row a function from column names *)

\* the columns every employment stage and the fraud stage have assigned
EmploymentColumns ==
    {"industry", "experience_level", "salary", "reported_salary",
     "is_fraudulent", "fraud_type"}

\* the columns of a frame without rows: each stage assigns its columns also
\* when there is no row, but pd.concat with the frame of no allocations adds
\* no allocation column
ColumnsWhenEmpty ==
    CASE pc = "emp_validate" -> EmploymentColumns
      [] pc = "returned" /\ kind \in {"EmploymentDataGenerator", "EmploymentGenerator"} ->
            EmploymentColumns
      [] pc = "inv_validate" ->
            EmploymentColumns \cup
            {"annual_investment", "expected_annual_return", "expected_value_1yr",
             "luxury_spending", "travel_spending", "lifestyle_ratio",
             "suspicious_lifestyle"}
      [] OTHER -> {}

Columns(d) == IF d = <<>> THEN ColumnsWhenEmpty ELSE DOMAIN d[1]

\* d[col] = vals
SetCol(d, col, vals) == [i \in 1..Len(d) |-> (col :> vals[i]) @@ d[i]]

Out(d, pos) == [data |-> d, pos |-> pos]

----------------------------------------------------------------------------
(* generators package: EmploymentDataGenerator *)

\* self.data = pd.DataFrame(index=range(size)); self.data['industry'] = ...
GenIndustryMut(n, pos) ==
    Out([i \in 1..Max2(n, Len(data)) |->
            "industry" :> Industries[ChoiceUniform(Len(Industries), U("seed", pos + i - 1))]],
        pos + n)

GenIndustry(n, pos) ==
    Out([i \in 1..n |->
            "industry" :> Industries[ChoiceUniform(Len(Industries), U("seed", pos + i - 1))]],
        pos + n)

\* self.data['experience_level'] = self.rng.choice(levels, size=size, p=probabilities)
GenExperience(d, pos) ==
    Out(SetCol(d, "experience_level",
               [i \in 1..Len(d) |->
                   ExperienceLevels[Choice(LevelProbability, U("seed", pos + i - 1))]]),
        pos + Len(d))

\* one row of _add_salary_data, the base salary drawn beyond the range
GenSalaryOfMut(row, pos) ==
    LET range == SalaryRange(row["industry"], row["experience_level"])
        base_salary == Uniform(range[1], 2 * range[2] - range[1], Plain(U("seed", pos)))
        band == Choice(BandProbability, U("seed", pos + 1))
        ratio == Uniform(BandRatio[band][1], BandRatio[band][2], Plain(U("seed", pos + 2)))
    IN  RoundMoney(base_salary * ratio, 1000)

\* one row of _add_salary_data: base salary, band, ratio
GenSalaryOf(row, pos) ==
    LET range == SalaryRange(row["industry"], row["experience_level"])
        base_salary == Uniform(range[1], range[2], Plain(U("seed", pos)))
        band == Choice(BandProbability, U("seed", pos + 1))
        ratio == Uniform(BandRatio[band][1], BandRatio[band][2], Plain(U("seed", pos + 2)))
    IN  RoundMoney(base_salary * ratio, 1000)

\* _add_salary_data: salary, and reported_salary as a copy of it
GenSalary(d, pos) ==
    LET salaries == [i \in 1..Len(d) |-> GenSalaryOf(d[i], pos + 3 * (i - 1))]
    IN  Out(SetCol(SetCol(d, "salary", salaries), "reported_salary", salaries),
            pos + 3 * Len(d))

----------------------------------------------------------------------------
(* generators package: FraudScenarioGenerator.add_fraud_indicators *)

\* fraud_mask = self.rng.random(size) < fraud_prob
FraudMask(n, pos) == [i \in 1..n |-> U01(U("seed", pos + i - 1)) < fraudProbability]

Count(mask) == Cardinality({i \in DOMAIN mask : mask[i]})

\* data.loc[fraud_indices, 'fraud_type'] = pd.Series(assigned_types): pandas
\* aligns the series (labelled 0..k-1) on the row labels, so the row labelled
\* x takes assigned_types[x], and a missing value when x >= k
AssignedType(i, k, assigned) == IF i <= k THEN assigned[i] ELSE "<NA>"

AddFraudIndicators(d, pos) ==
    LET n == Len(d)
        fraud_mask == FraudMask(n, pos)
        k == Count(fraud_mask)
        assigned_types ==
            [j \in 1..k |-> FraudTypes[Choice(FraudTypeProbability, U("seed", pos + n + j - 1))]]
    IN  Out([i \in 1..n |->
                ("is_fraudulent" :> fraud_mask[i])
                @@ ("fraud_type" :>
                       IF fraud_mask[i] THEN AssignedType(i, k, assigned_types) ELSE "none")
                @@ d[i]],
            pos + n + k)

----------------------------------------------------------------------------
(* DataFrameValidationStrategy.validate *)

\* the dtype each stage gives a column
Dtype(col) ==
    CASE col \in {"industry", "experience_level"} -> "object"
      [] col \in {"is_fraudulent", "suspicious_lifestyle"} -> "bool"
      [] col = "fraud_type" -> "string"
      [] OTHER -> "float64"

EmploymentRequired == {"industry", "experience_level", "salary", "reported_salary"}

EmploymentTypes ==
    ("salary" :> "float64") @@ ("reported_salary" :> "float64")
    @@ ("is_fraudulent" :> "bool") @@ ("fraud_type" :> "string")

InvestmentRequired ==
    {"industry", "experience_level", "salary", "reported_salary",
     "annual_investment", "stocks", "bonds", "cash", "real_estate",
     "expected_annual_return", "expected_value_1yr",
     "luxury_spending", "travel_spending", "lifestyle_ratio"}

InvestmentTypes ==
    [c \in {"salary", "reported_salary", "annual_investment", "stocks", "bonds",
            "cash", "real_estate", "expected_annual_return", "expected_value_1yr",
            "luxury_spending", "travel_spending", "lifestyle_ratio"} |-> "float64"]
    @@ ("is_fraudulent" :> "bool") @@ ("fraud_type" :> "string")
    @@ ("suspicious_lifestyle" :> "bool")

\* TRUE, or ValidationError
Validate(d, required_columns, column_types) ==
    /\ required_columns \subseteq Columns(d)
    /\ \A col \in DOMAIN column_types :
           col \in Columns(d) => Dtype(col) = column_types[col]

----------------------------------------------------------------------------
(* _generate_allocation, drawing from the global numpy source *)

\* the three draws of one attempt, read at position pos
DrawsAt(seed, pos) == [i \in 1..3 |-> Plain(U(seed, pos + i - 1))]

RECURSIVE GenerateAllocation(_, _, _, _, _)

\* the end of one pass r of the loop: return, raise, or go round again
AfterAttempt(v, assets, seed, pos, a, r) ==
    IF r.ok THEN [ok |-> TRUE, alloc |-> r.alloc, pos |-> pos + r.used]
    ELSE IF LastAttempt(a) THEN [ok |-> FALSE, alloc |-> <<>>, pos |-> pos + r.used]
    ELSE GenerateAllocation(v, assets, seed, pos + r.used, a + 1)

\* _generate_allocation from attempt a on: [ok, alloc, pos]
GenerateAllocation(v, assets, seed, pos, a) ==
    AfterAttempt(v, assets, seed, pos, a, Attempt(v, assets, DrawsAt(seed, pos)))

RECURSIVE Allocations(_, _, _, _, _, _)

AppendAllocation(v, assets, seed, n, acc, r) ==
    IF ~r.ok THEN [ok |-> FALSE, allocs |-> acc, pos |-> r.pos]
    ELSE Allocations(v, assets, seed, r.pos, n - 1, Append(acc, r.alloc))

\* `for _ in range(len(data)): allocations.append(self._generate_allocation())`
Allocations(v, assets, seed, pos, n, acc) ==
    IF n = 0 THEN [ok |-> TRUE, allocs |-> acc, pos |-> pos]
    ELSE AppendAllocation(v, assets, seed, n, acc,
                          GenerateAllocation(v, assets, seed, pos, 0))

\* the rate draws of add_portfolio_data / _add_portfolio_data
AnnualInvestment(row, seed, pos) ==
    LET rate == InvestmentRate(row["experience_level"])
        investment_rate == Uniform(rate[1], rate[2], Plain(U(seed, pos)))
    IN  RoundMoney(row["salary"] * investment_rate, 1000)

\* data = pd.concat([data, allocation_df], axis=1)
WithAllocation(row, alloc) ==
    [c \in {AssetNames[j] : j \in 1..Len(AssetNames)} |->
        alloc[CHOOSE j \in 1..Len(AssetNames) : AssetNames[j] = c]] @@ row

\* the table once the allocations a are drawn (or the draw has raised)
ConcatAllocations(d, amounts, a) ==
    IF ~a.ok THEN [ok |-> FALSE, data |-> SetCol(d, "annual_investment", amounts), pos |-> a.pos]
    ELSE [ok |-> TRUE,
          data |-> [i \in 1..Len(d) |->
                       WithAllocation(("annual_investment" :> amounts[i]) @@ d[i], a.allocs[i])],
          pos |-> a.pos]

\* _add_portfolio_data / add_portfolio_data: [ok, data, pos]
PortfolioData(v, assets, d, seed, pos) ==
    ConcatAllocations(d,
                      [i \in 1..Len(d) |-> AnnualInvestment(d[i], seed, pos + i - 1)],
                      Allocations(v, assets, seed, pos + Len(d), Len(d), <<>>))

\* np.random.normal(avg_return, volatility): one of the points avg - vol .. avg + vol
Normal(avg, vol, u) == avg + (vol * (2 * u - UMax)) \div UMax

\* the portfolio return of one row, in units of 1e-9
TotalReturn(row, seed, pos) ==
    SumSeq([j \in 1..Len(AssetNames) |->
               row[AssetNames[j]] * Normal(AssetReturns[j][1], AssetReturns[j][2], U(seed, pos + j - 1))])

\* _add_returns_data / add_returns_data
ReturnsData(d, seed, pos) ==
    LET n == Len(d)
        k == Len(AssetNames)
    IN  Out([i \in 1..n |->
                LET ret == RoundDiv(TotalReturn(d[i], seed, pos + k * (i - 1)), 100000)
                IN  ("expected_annual_return" :> ret)
                    @@ ("expected_value_1yr" :>
                           RoundMoney(d[i]["annual_investment"] * (10000 + ret), 10000))
                    @@ d[i]],
            pos + k * n)

\* round((luxury_spending + travel_spending) / income, 4), in units of 1e-4
LifestyleRatioMut(luxury, travel, income) == (luxury * 10000) \div income

LifestyleRatio(luxury, travel, income) == RoundDiv((luxury + travel) * 10000, income)

\* (lifestyle_ratio > 0.4) | (luxury_spending > income * 0.25)
SuspiciousMut(ratio, luxury, income) == 4 * luxury > income

Suspicious(ratio, luxury, income) == ratio > 4000 \/ 4 * luxury > income

\* luxury_spending[idx], travel_spending[idx] as first drawn
Spending(row, seed, pos) ==
    LET lux == LuxuryRange(row["experience_level"])
        travel == TravelRange(row["experience_level"])
    IN  << RoundMoney(row["salary"] * Uniform(lux[1], lux[2], Plain(U(seed, pos))), 1000),
           RoundMoney(row["salary"] * Uniform(travel[1], travel[2], Plain(U(seed, pos + 1))), 1000) >>

\* the columns added once the spending arrays are complete
LifestyleColumnsMut(row, luxury, travel, income) ==
    ("luxury_spending" :> luxury) @@ ("travel_spending" :> travel) @@ row

LifestyleColumns(row, luxury, travel, income) ==
    LET ratio == LifestyleRatio(luxury, travel, income)
    IN  ("luxury_spending" :> luxury) @@ ("travel_spending" :> travel)
        @@ ("lifestyle_ratio" :> ratio)
        @@ ("suspicious_lifestyle" :> Suspicious(ratio, luxury, income))
        @@ row

\* InvestmentDataGenerator._add_lifestyle_indicators
GenLifestyle(d, seed, pos) ==
    Out([i \in 1..Len(d) |->
            LET sp == Spending(d[i], seed, pos + 2 * (i - 1))
            IN  LifestyleColumns(d[i], sp[1], sp[2], d[i]["reported_salary"])],
        pos + 2 * Len(d))

----------------------------------------------------------------------------
(* controllers package: EmploymentGenerator *)

\* add_industry_data
CtlIndustry(n, pos) ==
    Out([i \in 1..n |->
            "industry" :> Industries[ChoiceUniform(Len(Industries), U("seed", pos + i - 1))]],
        pos + n)

\* add_experience_levels
CtlExperience(d, pos) ==
    Out(SetCol(d, "experience_level",
               [i \in 1..Len(d) |->
                   ExperienceLevels[Choice(LevelProbability, U("seed", pos + i - 1))]]),
        pos + Len(d))

\* one row of add_salary_data: band, ratio
CtlSalaryOf(row, pos) ==
    LET base_salary == BaseSalary(row["industry"], row["experience_level"])
        band == Choice(BandProbability, U("seed", pos))
        ratio == Uniform(BandRatio[band][1], BandRatio[band][2], Plain(U("seed", pos + 1)))
    IN  RoundMoney(base_salary * ratio, 1000)

\* add_salary_data
CtlSalary(d, pos) ==
    Out(SetCol(d, "salary", [i \in 1..Len(d) |-> CtlSalaryOf(d[i], pos + 2 * (i - 1))]),
        pos + 2 * Len(d))

\* "Initialize fraud columns" of EmploymentGenerator.add_fraud_scenarios
CtlEmpFraudColumns(row) ==
    ("is_fraudulent" :> FALSE) @@ ("fraud_type" :> "none")
    @@ ("reported_salary" :> row["salary"]) @@ row

\* np.random.uniform(0.7, 0.9): "report 70-90% of actual salary"
MisreportRangeMut == <<900, 1100>>

MisreportRange == <<700, 900>>

\* the level experience inflation promotes an entry record to
InflatedLevelMut == "expert"

InflatedLevel == "mid"

\* one pass of the loop, the inflation not testing the current level
CtlEmpFraudRowMut(row, seed, pos) ==
    IF U01(U(seed, pos)) < 100
    THEN LET flagged == ("is_fraudulent" :> TRUE) @@ row
         IN  IF U01(U(seed, pos + 1)) < 500
             THEN [row |-> ("reported_salary" :>
                               RoundMoney(row["salary"]
                                          * Uniform(MisreportRange[1], MisreportRange[2],
                                                    Plain(U(seed, pos + 2))), 1000))
                           @@ ("fraud_type" :> "salary_misreporting") @@ flagged,
                   pos |-> pos + 3]
             ELSE [row |-> ("experience_level" :> InflatedLevel)
                           @@ ("fraud_type" :> "experience_inflation") @@ flagged,
                   pos |-> pos + 2]
    ELSE [row |-> row, pos |-> pos + 1]

\* one pass of the loop of add_fraud_scenarios (the definition in force, the
\* second one of the class): [row, pos]
CtlEmpFraudRow(row, seed, pos) ==
    IF U01(U(seed, pos)) < 100
    THEN LET flagged == ("is_fraudulent" :> TRUE) @@ row
         IN  IF U01(U(seed, pos + 1)) < 500
             THEN [row |-> ("reported_salary" :>
                               RoundMoney(row["salary"]
                                          * Uniform(MisreportRange[1], MisreportRange[2],
                                                    Plain(U(seed, pos + 2))), 1000))
                           @@ ("fraud_type" :> "salary_misreporting") @@ flagged,
                   pos |-> pos + 3]
             ELSE IF row["experience_level"] = "entry"
             THEN [row |-> ("experience_level" :> InflatedLevel)
                           @@ ("fraud_type" :> "experience_inflation") @@ flagged,
                   pos |-> pos + 2]
             ELSE [row |-> flagged, pos |-> pos + 2]
    ELSE [row |-> row, pos |-> pos + 1]

RECURSIVE CtlEmpFraudLoop(_, _, _, _)
CtlEmpFraudLoop(d, i, seed, pos) ==
    IF i > Len(d) THEN Out(d, pos)
    ELSE LET r == CtlEmpFraudRow(d[i], seed, pos)
         IN  CtlEmpFraudLoop([d EXCEPT ![i] = r.row], i + 1, seed, r.pos)

\* EmploymentGenerator.add_fraud_scenarios
CtlEmpFraud(d, seed, pos) ==
    CtlEmpFraudLoop([i \in 1..Len(d) |-> CtlEmpFraudColumns(d[i])], 1, seed, pos)

----------------------------------------------------------------------------
(* controllers package: InvestmentGenerator *)

\* "Initialize fraud indicator columns" of InvestmentGenerator.add_fraud_scenarios
CtlInvFraudColumnsMut(row) ==
    ("is_fraudulent" :> FALSE)
    @@ ("reported_income" :> row["salary"])
    @@ ("reported_deductions" :> 0) @@ ("true_deductions" :> 0) @@ row

CtlInvFraudColumns(row) ==
    ("is_fraudulent" :> FALSE) @@ ("fraud_type" :> "none")
    @@ ("reported_income" :> row["salary"])
    @@ ("reported_deductions" :> 0) @@ ("true_deductions" :> 0) @@ row

\* one pass of the loop of InvestmentGenerator.add_fraud_scenarios: [row, pos]
CtlInvFraudRow(row, seed, pos) ==
    IF U01(U(seed, pos)) < 150
    THEN [row |-> ("reported_income" :>
                      RoundMoney(row["salary"] * Uniform(600, 850, Plain(U(seed, pos + 1))), 1000))
                  @@ ("is_fraudulent" :> TRUE)
                  @@ ("fraud_type" :> "underreported_income") @@ row,
          pos |-> pos + 2]
    ELSE IF U01(U(seed, pos + 1)) < 120
    THEN LET true_deductions ==
                 RoundMoney(row["salary"] * Uniform(100, 200, Plain(U(seed, pos + 2))), 1000)
             inflated_factor == Uniform(1300, 1800, Plain(U(seed, pos + 3)))
         IN  [row |-> ("true_deductions" :> true_deductions)
                      @@ ("reported_deductions" :> RoundMoney(true_deductions * inflated_factor, 1000))
                      @@ ("is_fraudulent" :> TRUE)
                      @@ ("fraud_type" :> "overstated_deductions") @@ row,
              pos |-> pos + 4]
    ELSE [row |-> row, pos |-> pos + 2]

RECURSIVE CtlInvFraudLoop(_, _, _, _)
CtlInvFraudLoop(d, i, seed, pos) ==
    IF i > Len(d) THEN Out(d, pos)
    ELSE LET r == CtlInvFraudRow(d[i], seed, pos)
         IN  CtlInvFraudLoop([d EXCEPT ![i] = r.row], i + 1, seed, r.pos)

\* InvestmentGenerator.add_fraud_scenarios
CtlInvFraud(d, seed, pos) ==
    CtlInvFraudLoop([i \in 1..Len(d) |-> CtlInvFraudColumns(d[i])], 1, seed, pos)

\* one pass of the loop, the spending inflated whatever the flag
CtlLifestyleRowMut(row, seed, pos) ==
    LET sp == Spending(row, seed, pos)
    IN  IF U01(U(seed, pos + 2)) < 100
        THEN LET inflation_factor == Uniform(1500, 2500, Plain(U(seed, pos + 3)))
             IN  [luxury |-> (sp[1] * inflation_factor) \div 1000,
                  travel |-> (sp[2] * inflation_factor) \div 1000,
                  row |-> IF ~row["is_fraudulent"]
                          THEN ("is_fraudulent" :> TRUE)
                               @@ ("fraud_type" :> "lifestyle_mismatch") @@ row
                          ELSE row,
                  pos |-> pos + 4]
        ELSE [luxury |-> sp[1], travel |-> sp[2], row |-> row, pos |-> pos + 3]

\* one pass of the loop of InvestmentGenerator.add_lifestyle_indicators:
\* the two spending amounts, the row (flags), and the position
CtlLifestyleRow(row, seed, pos) ==
    LET sp == Spending(row, seed, pos)
    IN  IF U01(U(seed, pos + 2)) < 100
        THEN LET inflation_factor == Uniform(1500, 2500, Plain(U(seed, pos + 3)))
             IN  IF ~row["is_fraudulent"]
                 THEN [luxury |-> (sp[1] * inflation_factor) \div 1000,
                       travel |-> (sp[2] * inflation_factor) \div 1000,
                       row |-> ("is_fraudulent" :> TRUE)
                               @@ ("fraud_type" :> "lifestyle_mismatch") @@ row,
                       pos |-> pos + 4]
                 ELSE [luxury |-> sp[1], travel |-> sp[2], row |-> row, pos |-> pos + 4]
        ELSE [luxury |-> sp[1], travel |-> sp[2], row |-> row, pos |-> pos + 3]

RECURSIVE CtlLifestyleLoop(_, _, _, _)
CtlLifestyleLoop(d, i, seed, pos) ==
    IF i > Len(d) THEN Out(d, pos)
    ELSE LET r == CtlLifestyleRow(d[i], seed, pos)
         IN  CtlLifestyleLoop(
                 [d EXCEPT ![i] = ("luxury_spending" :> r.luxury)
                                  @@ ("travel_spending" :> r.travel) @@ r.row],
                 i + 1, seed, r.pos)

\* InvestmentGenerator.add_lifestyle_indicators
CtlLifestyle(d, seed, pos) ==
    LET spent == CtlLifestyleLoop(d, 1, seed, pos)
    IN  Out([i \in 1..Len(d) |->
                LifestyleColumns(spent.data[i], spent.data[i]["luxury_spending"],
                                 spent.data[i]["travel_spending"],
                                 spent.data[i]["reported_income"])],
            spent.pos)

----------------------------------------------------------------------------
(* The allocation sampler, one attempt per step *)

PipeIdle ==
    /\ kind = "none"
    /\ size = 0
    /\ prng = <<>>
    /\ npRandom = <<>>
    /\ rngPos = <<>>
    /\ run = 0
    /\ pc = "idle"
    /\ data = <<>>
    /\ returned = <<>>
    /\ genError = <<>>
    /\ fraudProbability = 0
    /\ saved = <<>>

\* no validate was called
ValIdle ==
    /\ validator = "none"
    /\ subject = [type |-> "NoneType"]
    /\ outcome = [result |-> "idle"]

\* self._datasets = {} and no call yet
NoCall == [op |-> "none", name |-> "", error |-> "none", frame |-> [type |-> "NoneType"]]

StoreIdle ==
    /\ datasets = <<>>
    /\ call = NoCall

\* no constructor is under test
CtorIdle ==
    /\ config = {}
    /\ instance = "none"
    /\ files = <<>>
    /\ manager = [config |-> [type |-> "NoneType"], path |-> "none"]
    /\ loaded = [type |-> "NoneType"]
    /\ reading = [op |-> "none"]
    /\ generator = [kind |-> "none"]

AllocInit ==
    /\ PipeIdle
    /\ ValIdle
    /\ CtorIdle
    /\ StoreIdle
    /\ assetClasses \in AssetConfigs
    /\ variant \in {"generators", "controllers"}
    /\ attempt = 0
    /\ allocPc = "running"
    /\ allocation = <<>>
    /\ allocError = "none"
    /\ adjusted = FALSE

AllocStep ==
    /\ allocPc = "running"
    /\ \E draws \in [1..3 -> Draws] :
        LET r == Attempt(variant, assetClasses, draws)
        IN  IF r.ok
            THEN /\ allocPc' = "returned"
                 /\ allocation' = r.alloc
                 /\ adjusted' = r.adjusted
                 /\ UNCHANGED <<attempt, allocError>>
            ELSE IF LastAttempt(attempt)
            THEN /\ allocPc' = "raised"
                 /\ allocError' = RetryError
                 /\ UNCHANGED <<attempt, allocation, adjusted>>
            ELSE /\ attempt' = attempt + 1
                 /\ UNCHANGED <<allocPc, allocation, allocError, adjusted>>
    /\ UNCHANGED <<assetClasses, variant>>
    /\ UNCHANGED <<pipeVars, valVars, ctorVars, storeVars>>

AllocNext == AllocStep

SpecAlloc == AllocInit /\ [][AllocNext]_vars

----------------------------------------------------------------------------
(* Claims about the allocation sampler, checked under SpecAlloc *)

Returned == allocPc = "returned"

Infeasible == SumMin(assetClasses, 1) > One

\* C1: every allocation _generate_allocation returns (either package) has
\* stocks + bonds + cash + real_estate, as stored (each rounded to 4
\* decimals), equal to 1.0 within 1e-4.
C1_AllocationSum ==
    Returned => Abs(SumSeq(allocation) - One) <= ATOL

\* C1 witness: an allocation was returned whose rounded values do not sum to
\* exactly 1.0.
C1_Witness ==
    Returned /\ SumSeq(allocation) # One

\* C2 (as claimed): every allocation InvestmentDataGenerator._generate_allocation
\* returns has each asset within its configured [min, max] to within 1e-4,
\* also when the largest asset was adjusted by the residual.
C2_AllocationBounds ==
    (Returned /\ variant = "generators") =>
        WithinBoundsAtol(assetClasses, allocation)

----------------------------------------------------------------------------
(* generate(size), one stage per step.  Two instances are built from the     *)
(* same configuration and seed; the first generates, then the second.       *)

Kinds == {"EmploymentDataGenerator", "InvestmentDataGenerator",
          "EmploymentGenerator", "InvestmentGenerator"}

Package(k) ==
    IF k \in {"EmploymentDataGenerator", "InvestmentDataGenerator"}
    THEN "generators" ELSE "controllers"

IsInvestment(k) == k \in {"InvestmentDataGenerator", "InvestmentGenerator"}

\* np.random.RandomState(seed) of each component of a fresh instance
FreshRng == [emp |-> 0, empFraud |-> 0, invFraud |-> 0]

AllocIdle ==
    /\ assetClasses = <<>>
    /\ variant = "none"
    /\ attempt = 0
    /\ allocPc = "idle"
    /\ allocation = <<>>
    /\ allocError = "none"
    /\ adjusted = FALSE

\* save_industry_dataset was not called
NotSaved == [written |-> FALSE, error |-> "none", columns |-> {}, rows |-> <<>>]

\* the sizes generate is called with: negative, zero and positive
Sizes == {0 - 1} \cup 0..MaxSize

\* 1: the first instance generates; 2: the second instance generates;
\* 3: the first instance generates again
Runs == {1, 2, 3}

\* DatasetGenerator._init_random_state seeds the global source with the
\* configured seed; the generators package never seeds it
PipeStart ==
    /\ AllocIdle
    /\ ValIdle
    /\ CtorIdle
    /\ StoreIdle
    /\ kind \in Kinds
    /\ size \in Sizes
    /\ prng \in [{"seed", "os"} -> Streams]
    /\ kind # "InvestmentDataGenerator" => prng["os"] = prng["seed"]
    /\ npRandom = [seed |-> IF Package(kind) = "generators" THEN "os" ELSE "seed", pos |-> 0]
    /\ rngPos = FreshRng
    /\ run = 1
    /\ pc = "emp_industry"
    /\ data = <<>>
    /\ returned = [r \in Runs |-> <<>>]
    /\ genError = [r \in Runs |-> "none"]
    /\ saved = NotSaved

\* the generators built from the default configuration
PipeInit ==
    /\ PipeStart
    /\ fraudProbability = FraudProbability

Fixed == UNCHANGED <<allocVars, valVars, ctorVars, storeVars, kind, size, prng, run, fraudProbability, saved>>

Return(d) ==
    /\ returned' = [returned EXCEPT ![run] = d]
    /\ pc' = "returned"
    /\ UNCHANGED genError

Raise(e) ==
    /\ genError' = [genError EXCEPT ![run] = e]
    /\ pc' = "raised"
    /\ UNCHANGED returned

Goto(stage) ==
    /\ pc' = stage
    /\ UNCHANGED <<returned, genError>>

\* the portfolio stage ends with the table extended, or its ValueError leaves generate
PortfolioStage(r) ==
    /\ data' = r.data
    /\ npRandom' = [npRandom EXCEPT !.pos = r.pos]
    /\ IF r.ok THEN Goto("inv_returns") ELSE Raise(RetryError)

\* rng.choice(industries, size=size) with a negative size: numpy's ValueError
\* ("negative dimensions are not allowed") leaves generate
GenEmpIndustry ==
    /\ pc = "emp_industry" /\ Package(kind) = "generators"
    /\ IF size < 0
       THEN /\ data' = <<>>
            /\ Raise("ValueError")
            /\ UNCHANGED rngPos
       ELSE /\ LET r == GenIndustry(size, rngPos.emp)
               IN  data' = r.data /\ rngPos' = [rngPos EXCEPT !.emp = r.pos]
            /\ Goto("emp_experience")
    /\ UNCHANGED npRandom /\ Fixed

GenEmpExperience ==
    /\ pc = "emp_experience" /\ Package(kind) = "generators"
    /\ LET r == GenExperience(data, rngPos.emp)
       IN  data' = r.data /\ rngPos' = [rngPos EXCEPT !.emp = r.pos]
    /\ Goto("emp_salary")
    /\ UNCHANGED npRandom /\ Fixed

GenEmpSalary ==
    /\ pc = "emp_salary" /\ Package(kind) = "generators"
    /\ LET r == GenSalary(data, rngPos.emp)
       IN  data' = r.data /\ rngPos' = [rngPos EXCEPT !.emp = r.pos]
    /\ Goto("emp_fraud")
    /\ UNCHANGED npRandom /\ Fixed

GenEmpFraud ==
    /\ pc = "emp_fraud" /\ Package(kind) = "generators"
    /\ LET r == AddFraudIndicators(data, rngPos.empFraud)
       IN  data' = r.data /\ rngPos' = [rngPos EXCEPT !.empFraud = r.pos]
    /\ Goto("emp_validate")
    /\ UNCHANGED npRandom /\ Fixed

\* self.validator.validate(self.data); return self.data.copy()
GenEmpValidate ==
    /\ pc = "emp_validate" /\ Package(kind) = "generators"
    /\ IF ~Validate(data, EmploymentRequired, EmploymentTypes)
       THEN Raise("ValidationError")
       ELSE IF IsInvestment(kind) THEN Goto("inv_portfolio") ELSE Return(data)
    /\ UNCHANGED <<data, rngPos, npRandom>> /\ Fixed

GenInvPortfolio ==
    /\ pc = "inv_portfolio" /\ Package(kind) = "generators"
    /\ PortfolioStage(PortfolioData("generators", DefaultAssets, data, npRandom.seed, npRandom.pos))
    /\ UNCHANGED rngPos /\ Fixed

GenInvReturns ==
    /\ pc = "inv_returns" /\ Package(kind) = "generators"
    /\ LET r == ReturnsData(data, npRandom.seed, npRandom.pos)
       IN  data' = r.data /\ npRandom' = [npRandom EXCEPT !.pos = r.pos]
    /\ Goto("inv_lifestyle")
    /\ UNCHANGED rngPos /\ Fixed

GenInvLifestyle ==
    /\ pc = "inv_lifestyle" /\ Package(kind) = "generators"
    /\ LET r == GenLifestyle(data, npRandom.seed, npRandom.pos)
       IN  data' = r.data /\ npRandom' = [npRandom EXCEPT !.pos = r.pos]
    /\ Goto("inv_fraud")
    /\ UNCHANGED rngPos /\ Fixed

GenInvFraud ==
    /\ pc = "inv_fraud" /\ Package(kind) = "generators"
    /\ LET r == AddFraudIndicators(data, rngPos.invFraud)
       IN  data' = r.data /\ rngPos' = [rngPos EXCEPT !.invFraud = r.pos]
    /\ Goto("inv_validate")
    /\ UNCHANGED npRandom /\ Fixed

\* self.validator.validate(data); return data
GenInvValidate ==
    /\ pc = "inv_validate" /\ Package(kind) = "generators"
    /\ IF ~Validate(data, InvestmentRequired, InvestmentTypes)
       THEN Raise("ValidationError")
       ELSE Return(data)
    /\ UNCHANGED <<data, rngPos, npRandom>> /\ Fixed

CtlEmpIndustry ==
    /\ pc = "emp_industry" /\ Package(kind) = "controllers"
    /\ IF size < 0
       THEN /\ data' = <<>>
            /\ Raise("ValueError")
            /\ UNCHANGED rngPos
       ELSE /\ LET r == CtlIndustry(size, rngPos.emp)
               IN  data' = r.data /\ rngPos' = [rngPos EXCEPT !.emp = r.pos]
            /\ Goto("emp_experience")
    /\ UNCHANGED npRandom /\ Fixed

CtlEmpExperience ==
    /\ pc = "emp_experience" /\ Package(kind) = "controllers"
    /\ LET r == CtlExperience(data, rngPos.emp)
       IN  data' = r.data /\ rngPos' = [rngPos EXCEPT !.emp = r.pos]
    /\ Goto("emp_salary")
    /\ UNCHANGED npRandom /\ Fixed

CtlEmpSalary ==
    /\ pc = "emp_salary" /\ Package(kind) = "controllers"
    /\ LET r == CtlSalary(data, rngPos.emp)
       IN  data' = r.data /\ rngPos' = [rngPos EXCEPT !.emp = r.pos]
    /\ Goto("emp_fraud")
    /\ UNCHANGED npRandom /\ Fixed

\* self.add_fraud_scenarios(); return self.data
CtlEmpFraudStage ==
    /\ pc = "emp_fraud" /\ Package(kind) = "controllers"
    /\ LET r == CtlEmpFraud(data, npRandom.seed, npRandom.pos)
       IN  /\ data' = r.data
           /\ npRandom' = [npRandom EXCEPT !.pos = r.pos]
           /\ IF IsInvestment(kind) THEN Goto("inv_portfolio") ELSE Return(r.data)
    /\ UNCHANGED rngPos /\ Fixed

CtlInvPortfolio ==
    /\ pc = "inv_portfolio" /\ Package(kind) = "controllers"
    /\ PortfolioStage(PortfolioData("controllers", DefaultAssets, data, npRandom.seed, npRandom.pos))
    /\ UNCHANGED rngPos /\ Fixed

CtlInvReturns ==
    /\ pc = "inv_returns" /\ Package(kind) = "controllers"
    /\ LET r == ReturnsData(data, npRandom.seed, npRandom.pos)
       IN  data' = r.data /\ npRandom' = [npRandom EXCEPT !.pos = r.pos]
    /\ Goto("inv_fraud")
    /\ UNCHANGED rngPos /\ Fixed

CtlInvFraudStage ==
    /\ pc = "inv_fraud" /\ Package(kind) = "controllers"
    /\ LET r == CtlInvFraud(data, npRandom.seed, npRandom.pos)
       IN  data' = r.data /\ npRandom' = [npRandom EXCEPT !.pos = r.pos]
    /\ Goto("inv_lifestyle")
    /\ UNCHANGED rngPos /\ Fixed

\* self.add_lifestyle_indicators(); return self.data
CtlInvLifestyle ==
    /\ pc = "inv_lifestyle" /\ Package(kind) = "controllers"
    /\ LET r == CtlLifestyle(data, npRandom.seed, npRandom.pos)
       IN  /\ data' = r.data
           /\ npRandom' = [npRandom EXCEPT !.pos = r.pos]
           /\ Return(r.data)
    /\ UNCHANGED rngPos /\ Fixed

\* the second instance, built like the first, generates after it
SecondInstance ==
    /\ run = 1 /\ pc \in {"returned", "raised"}
    /\ run' = 2
    /\ rngPos' = FreshRng
    /\ data' = <<>>
    /\ pc' = "emp_industry"
    /\ UNCHANGED <<allocVars, valVars, ctorVars, storeVars, kind, size, prng, npRandom, returned, genError,
                   fraudProbability, saved>>

\* generate is called again on the first instance, with any size: its
\* sources go on from where they are and self.data is still the old table
GenerateAgain ==
    /\ run = 1 /\ pc \in {"returned", "raised"}
    /\ run' = 3
    /\ size' \in Sizes
    /\ pc' = "emp_industry"
    /\ UNCHANGED <<allocVars, valVars, ctorVars, storeVars, kind, prng, npRandom, rngPos, data, returned, genError,
                   fraudProbability, saved>>

\* the columns of self.data between two calls of generate: a frame without
\* rows has every employment column when generate returned it, and none when
\* the first stage raised
StoredColumns ==
    IF data # <<>> THEN DOMAIN data[1]
    ELSE IF pc = "returned" THEN EmploymentColumns ELSE {}

\* EmploymentDataGenerator.save_industry_dataset: self.data, whatever it
\* is, goes to DataPersistence.save; ValueError while the instance has no
\* data attribute (generate was never called)
SaveIndustryDataset ==
    /\ kind = "EmploymentDataGenerator"
    /\ saved = NotSaved
    /\ \/ run = 1 /\ pc = "emp_industry"
       \/ pc \in {"returned", "raised"}
    /\ saved' = IF run = 1 /\ pc = "emp_industry"
                THEN [NotSaved EXCEPT !.error = "ValueError"]
                ELSE [written |-> TRUE, error |-> "none",
                      columns |-> StoredColumns, rows |-> data]
    /\ UNCHANGED <<allocVars, valVars, ctorVars, storeVars, kind, size, prng, npRandom, rngPos, run, pc,
                   data, returned, genError, fraudProbability>>

PipeNext ==
    \/ GenEmpIndustry \/ GenEmpExperience \/ GenEmpSalary \/ GenEmpFraud
    \/ GenEmpValidate \/ GenInvPortfolio \/ GenInvReturns \/ GenInvLifestyle
    \/ GenInvFraud \/ GenInvValidate
    \/ CtlEmpIndustry \/ CtlEmpExperience \/ CtlEmpSalary \/ CtlEmpFraudStage
    \/ CtlInvPortfolio \/ CtlInvReturns \/ CtlInvFraudStage \/ CtlInvLifestyle
    \/ SecondInstance \/ GenerateAgain \/ SaveIndustryDataset

SpecPipe == PipeInit /\ [][PipeNext]_vars

----------------------------------------------------------------------------
(* Claims about generate, checked under SpecPipe *)

Rows(d) == {d[i] : i \in 1..Len(d)}

\* the records of every dataset generate has returned
ReturnedRows == UNION {Rows(returned[r]) : r \in DOMAIN returned}

\* the records of the table once a fraud stage has labelled it
LabelledRows == {row \in Rows(data) : "fraud_type" \in DOMAIN row}

NamedFraudTypes ==
    {"salary_misreporting", "suspicious_lifestyle", "rapid_transactions",
     "experience_inflation", "underreported_income", "overstated_deductions",
     "lifestyle_mismatch"}

\* the reported income the lifestyle indicators are computed from
ReportedIncome(row) ==
    IF Package(kind) = "generators" THEN row["reported_salary"] ELSE row["reported_income"]

\* C4: after fraud injection, and in every dataset any generator returns, no
\* record has a fraud_type other than "none" while is_fraudulent is false.
C4_NoTypeWithoutFlag ==
    \A row \in LabelledRows \cup ReturnedRows :
        row["fraud_type"] # "none" => row["is_fraudulent"]

\* C4 witness: the controllers investment generator, whose fraud stage resets
\* the labels the employment stage made, returned a dataset holding a labelled
\* fraud record next to an unlabelled one.
C4_Witness ==
    /\ kind = "InvestmentGenerator" /\ pc = "returned"
    /\ \E row \in Rows(returned[run]) : row["is_fraudulent"] /\ row["fraud_type"] # "none"
    /\ \E row \in Rows(returned[run]) : ~row["is_fraudulent"] /\ row["fraud_type"] = "none"

\* C5 (as claimed): in every returned dataset a record is fraudulent exactly
\* when its fraud_type names a fraud type (not "none", not a missing value).
C5_FlagIffNamedType ==
    \A row \in ReturnedRows :
        row["is_fraudulent"] <=> row["fraud_type"] \in NamedFraudTypes

\* C6 (as claimed): in every dataset the generators package returns, a record
\* labelled salary_misreporting has reported_salary < salary.
C6_MisreportingLowersSalary ==
    Package(kind) = "generators" =>
        \A row \in ReturnedRows :
            row["fraud_type"] = "salary_misreporting" =>
                row["reported_salary"] < row["salary"]

\* C7: in every dataset EmploymentGenerator.generate returns, reported_salary
\* <= salary for salary_misreporting records and reported_salary = salary for
\* every other record.
C7_ReportedSalary ==
    kind = "EmploymentGenerator" =>
        \A row \in ReturnedRows :
            IF row["fraud_type"] = "salary_misreporting"
            THEN row["reported_salary"] <= row["salary"]
            ELSE row["reported_salary"] = row["salary"]

\* C7 witness: EmploymentGenerator returned a dataset with a misreported
\* salary below the true one and an untouched record.
C7_Witness ==
    /\ kind = "EmploymentGenerator" /\ pc = "returned"
    /\ \E row \in Rows(returned[run]) :
           row["fraud_type"] = "salary_misreporting" /\ row["reported_salary"] < row["salary"]
    /\ \E row \in Rows(returned[run]) : row["fraud_type"] # "salary_misreporting"

\* C8 (as claimed): two instances built from the same configuration and seed
\* end generate(size) the same way, with identical datasets.
C8_Deterministic ==
    (run = 2 /\ pc \in {"returned", "raised"}) =>
        returned[1] = returned[2] /\ genError[1] = genError[2]

\* C9: in every dataset an investment generator returns, lifestyle_ratio is
\* round((luxury_spending + travel_spending) / reported income, 4) of the
\* values stored in the same record.
C9_LifestyleRatio ==
    IsInvestment(kind) =>
        \A row \in ReturnedRows :
            row["lifestyle_ratio"] =
                RoundDiv((row["luxury_spending"] + row["travel_spending"]) * 10000,
                         ReportedIncome(row))

\* C9 witness: a returned investment record whose reported income was lowered
\* by fraud injection.
C9_Witness ==
    /\ kind = "InvestmentGenerator" /\ pc = "returned"
    /\ \E row \in ReturnedRows :
           row["fraud_type"] = "underreported_income" /\ row["reported_income"] < row["salary"]

\* C10: in every dataset an investment generator returns, suspicious_lifestyle
\* is true exactly when lifestyle_ratio > 0.4 or luxury_spending > 0.25 times
\* the reported income.
C10_SuspiciousLifestyle ==
    IsInvestment(kind) =>
        \A row \in ReturnedRows :
            row["suspicious_lifestyle"] <=>
                (row["lifestyle_ratio"] > 4000
                 \/ 4 * row["luxury_spending"] > ReportedIncome(row))

\* C10 witness: a returned dataset of the generators package with a record
\* flagged by the ratio threshold alone.
C10_Witness ==
    /\ kind = "InvestmentDataGenerator" /\ pc = "returned"
    /\ \E row \in Rows(returned[run]) :
           /\ row["suspicious_lifestyle"]
           /\ row["lifestyle_ratio"] > 4000
           /\ ~(4 * row["luxury_spending"] > row["reported_salary"])

\* the columns generate must deliver, per stage
RequiredColumns ==
    IF IsInvestment(kind) THEN InvestmentRequired ELSE EmploymentRequired

\* C11: generate(size) with size > 0 returns exactly size records holding
\* every required column of the stage, also when the same instance had
\* generated before: the new dataset has size records and the columns of a
\* fresh one, whatever the earlier dataset was.
C11_SizeRecordsReplaced ==
    (pc = "returned" /\ size > 0) =>
        /\ Len(returned[run]) = size
        /\ \A row \in Rows(returned[run]) : RequiredColumns \subseteq DOMAIN row
        /\ (run = 3 /\ returned[1] # <<>>) =>
              \A row \in Rows(returned[run]) : DOMAIN row = DOMAIN returned[1][1]

\* C11 witness: the first instance returned a dataset and then, called again
\* with a smaller positive size, returned a shorter one.
C11_Witness ==
    /\ run = 3 /\ pc = "returned" /\ size > 0
    /\ Len(returned[1]) > Len(returned[3])

\* C12 (as claimed): an employment generator's generate(size) with size <= 0
\* never returns a dataset.
C12_RejectsNonPositiveSize ==
    (~IsInvestment(kind) /\ size <= 0) => pc # "returned"

----------------------------------------------------------------------------
(* The validators, applied to a frame.  A subject is [type |-> "NoneType"], *)
(* [type |-> "list"] or a DataFrame [type, dtypes, rows]: the dtype of each *)
(* column and the records.                                                  *)

\* the frame a table of the pipeline is
FrameOf(d) ==
    [type |-> "DataFrame", dtypes |-> [c \in Columns(d) |-> Dtype(c)], rows |-> d]

\* the outcomes of a validate
Passed == [result |-> "True", message |-> "", has_details |-> FALSE,
           missing_columns |-> {}, column |-> ""]

Rejected == [Passed EXCEPT !.result = "False"]

\* raise ValidationError(message, details)
ValidationError(message, has_details, missing_columns, column) ==
    [result |-> "ValidationError", message |-> message, has_details |-> has_details,
     missing_columns |-> missing_columns, column |-> column]

\* column_types in the order of the dict
EmploymentTypeOrder == <<"salary", "reported_salary", "is_fraudulent", "fraud_type">>

InvestmentTypeOrder ==
    <<"salary", "reported_salary", "annual_investment", "stocks", "bonds", "cash",
      "real_estate", "expected_annual_return", "expected_value_1yr",
      "luxury_spending", "travel_spending", "lifestyle_ratio", "is_fraudulent",
      "fraud_type", "suspicious_lifestyle">>

\* the positions of column_types whose column is present with another dtype
BadTypes(x, type_order, column_types) ==
    {i \in 1..Len(type_order) :
        /\ type_order[i] \in DOMAIN x.dtypes
        /\ x.dtypes[type_order[i]] # column_types[type_order[i]]}

\* the type check alone, for a frame with every required column
TypeCheckMut(x, type_order, column_types) == Passed

TypeCheck(x, type_order, column_types) ==
    LET bad == BadTypes(x, type_order, column_types)
    IN  IF bad # {}
        THEN ValidationError("Invalid type for column", TRUE, {},
                             type_order[CHOOSE i \in bad : \A j \in bad : i <= j])
        ELSE Passed

\* DataFrameValidationStrategy.validate
DataFrameValidate(x, required_columns, type_order, column_types) ==
    IF x.type # "DataFrame"
    THEN ValidationError("Data must be a pandas DataFrame", FALSE, {}, "")
    ELSE IF required_columns \ DOMAIN x.dtypes # {}
    THEN ValidationError("Missing required columns", TRUE,
                         required_columns \ DOMAIN x.dtypes, "")
    ELSE TypeCheck(x, type_order, column_types)

\* EmploymentGenerator.validate, the salaries compared strictly
CtlEmpValidateMut(x) ==
    IF x.type = "NoneType" THEN Rejected
    ELSE IF ~(EmploymentColumns \subseteq DOMAIN x.dtypes) THEN Rejected
    ELSE IF \E row \in Rows(x.rows) :
               \/ row["experience_level"] \notin Rows(ExperienceLevels)
               \/ row["industry"] \notin Rows(Industries)
               \/ row["is_fraudulent"] \notin BOOLEAN
               \/ row["fraud_type"] \notin {"none", "salary_misreporting", "experience_inflation"}
               \/ ~(row["reported_salary"] < row["salary"])
    THEN Rejected
    ELSE Passed

\* EmploymentGenerator.validate (controllers package)
CtlEmpValidate(x) ==
    IF x.type = "NoneType" THEN Rejected
    ELSE IF ~(EmploymentColumns \subseteq DOMAIN x.dtypes) THEN Rejected
    ELSE IF \E row \in Rows(x.rows) :
               \/ row["experience_level"] \notin Rows(ExperienceLevels)
               \/ row["industry"] \notin Rows(Industries)
               \/ row["is_fraudulent"] \notin BOOLEAN
               \/ row["fraud_type"] \notin {"none", "salary_misreporting", "experience_inflation"}
               \/ ~(row["reported_salary"] <= row["salary"])
    THEN Rejected
    ELSE Passed

CtlInvRequired ==
    {"industry", "experience_level", "salary", "annual_investment",
     "stocks", "bonds", "cash", "real_estate",
     "expected_annual_return", "expected_value_1yr",
     "reported_income", "reported_deductions", "true_deductions",
     "luxury_spending", "travel_spending", "lifestyle_ratio",
     "is_fraudulent", "fraud_type", "suspicious_lifestyle"}

\* the sum of the allocation columns of a record
AllocationSum(row) == row["stocks"] + row["bonds"] + row["cash"] + row["real_estate"]

\* InvestmentGenerator.validate (controllers package)
CtlInvValidate(x) ==
    IF x.type = "NoneType" THEN Rejected
    ELSE IF ~(CtlInvRequired \subseteq DOMAIN x.dtypes) THEN Rejected
    ELSE IF \E row \in Rows(x.rows) : ~IsClose(AllocationSum(row), One) THEN Rejected
    ELSE IF \E row \in Rows(x.rows) : ~(row["reported_income"] <= row["salary"]) THEN Rejected
    ELSE IF \E row \in Rows(x.rows) : ~(row["reported_deductions"] >= row["true_deductions"])
    THEN Rejected
    ELSE Passed

----------------------------------------------------------------------------
(* The employment generators under varied configuration: one generate call *)

\* fraud_scenarios.probability: never, the default, always
FraudProbabilities == {0, FraudProbability, 1000}

EmploymentInit ==
    /\ PipeStart
    /\ ~IsInvestment(kind)
    /\ fraudProbability \in FraudProbabilities

\* what the caller of the controllers package's EmploymentGenerator leaves in
\* generator.data before validate(): the data as it is, None, or the frame
\* without one of its columns
Tampered(x) ==
    {x, [type |-> "NoneType"]}
    \cup {[type |-> "DataFrame",
           dtypes |-> [c \in DOMAIN x.dtypes \ {col} |-> x.dtypes[c]],
           rows |-> [i \in 1..Len(x.rows) |->
                        [c \in DOMAIN x.rows[i] \ {col} |-> x.rows[i][c]]]] :
             col \in DOMAIN x.dtypes}

\* generator.validate(), before generate or after it returned or raised
ValidateData ==
    /\ kind = "EmploymentGenerator"
    /\ validator = "none"
    /\ \/ run = 1 /\ pc = "emp_industry"
       \/ pc \in {"returned", "raised"}
    /\ validator' = "EmploymentGenerator.validate"
    /\ subject' \in Tampered(FrameOf(data))
    /\ outcome' = CtlEmpValidate(subject')
    /\ UNCHANGED <<allocVars, pipeVars, ctorVars, storeVars>>

EmploymentNext ==
    \/ GenEmpIndustry \/ GenEmpExperience \/ GenEmpSalary \/ GenEmpFraud
    \/ GenEmpValidate
    \/ CtlEmpIndustry \/ CtlEmpExperience \/ CtlEmpSalary \/ CtlEmpFraudStage
    \/ GenerateAgain \/ SaveIndustryDataset \/ ValidateData

SpecEmployment == EmploymentInit /\ [][EmploymentNext]_vars

\* C13 (as claimed): with fraud_scenarios.probability = 0.0 every record of a
\* returned dataset has is_fraudulent false and fraud_type "none".
C13_NoFraudAtProbabilityZero ==
    fraudProbability = 0 =>
        \A row \in ReturnedRows : ~row["is_fraudulent"] /\ row["fraud_type"] = "none"

----------------------------------------------------------------------------
(* The validators called on frames: complete and well typed, or lacking a  *)
(* column, or holding a column of another dtype, or holding a record that   *)
(* breaks a relation between its values.                                    *)

\* a record with every column either package produces
BaseRecord ==
    [industry |-> "Tech", experience_level |-> "senior",
     salary |-> 66500, reported_salary |-> 66500,
     is_fraudulent |-> FALSE, fraud_type |-> "none",
     annual_investment |-> 9980,
     stocks |-> 40000, bonds |-> 40000, cash |-> 5000, real_estate |-> 15000,
     expected_annual_return |-> 160, expected_value_1yr |-> 10140,
     luxury_spending |-> 6650, travel_spending |-> 5320,
     lifestyle_ratio |-> 1800, suspicious_lifestyle |-> FALSE,
     reported_income |-> 66500, reported_deductions |-> 0, true_deductions |-> 0]

Faults ==
    {"none", "allocation_sum", "reported_income", "reported_deductions",
     "reported_salary", "experience_level", "industry", "fraud_type"}

\* the record with one relation broken
Faulty(row, fault) ==
    CASE fault = "allocation_sum" -> [row EXCEPT !.stocks = 50000]
      [] fault = "reported_income" -> [row EXCEPT !.reported_income = row.salary + 1]
      [] fault = "reported_deductions" -> [row EXCEPT !.true_deductions = 1000]
      [] fault = "reported_salary" -> [row EXCEPT !.reported_salary = row.salary + 1]
      [] fault = "experience_level" -> [row EXCEPT !.experience_level = "expert"]
      [] fault = "industry" -> [row EXCEPT !.industry = "Mining"]
      [] fault = "fraud_type" -> [row EXCEPT !.fraud_type = "other"]
      [] OTHER -> row

\* the columns a frame may lack, and those it may hold with another dtype
DropColumns ==
    {"salary", "stocks", "fraud_type", "reported_income", "suspicious_lifestyle",
     "experience_level"}

RetypeColumns == {"salary", "stocks", "fraud_type", "industry"}

WrongDtype(col) ==
    CASE Dtype(col) = "float64" -> "int64"
      [] Dtype(col) = "object" -> "string"
      [] OTHER -> "object"

Restrict(row, cols) == [c \in cols |-> row[c]]

Frame(drop, retype, fault) ==
    LET cols == DOMAIN BaseRecord \ drop
    IN  [type |-> "DataFrame",
         dtypes |-> [c \in cols |-> IF c \in retype THEN WrongDtype(c) ELSE Dtype(c)],
         rows |-> <<Restrict(BaseRecord, cols), Restrict(Faulty(BaseRecord, fault), cols)>>]

Subjects ==
    {[type |-> "NoneType"], [type |-> "list"]}
    \cup {Frame(drop, retype, fault) :
             drop \in {d \in SUBSET DropColumns : Cardinality(d) <= 1},
             retype \in {r \in SUBSET RetypeColumns : Cardinality(r) <= 2},
             fault \in Faults}

\* the validator of each generator of the generators package, and the
\* validate method of each generator of the controllers package
StrategyValidators ==
    {"EmploymentDataGenerator.validator", "InvestmentDataGenerator.validator"}

CtlValidators == {"EmploymentGenerator.validate", "InvestmentGenerator.validate"}

RequiredOf(v) ==
    IF v = "EmploymentDataGenerator.validator" THEN EmploymentRequired
    ELSE InvestmentRequired

TypeOrderOf(v) ==
    IF v = "EmploymentDataGenerator.validator" THEN EmploymentTypeOrder
    ELSE InvestmentTypeOrder

TypesOf(v) ==
    IF v = "EmploymentDataGenerator.validator" THEN EmploymentTypes
    ELSE InvestmentTypes

Pending == [Passed EXCEPT !.result = "pending"]

ValidateInit ==
    /\ AllocIdle
    /\ PipeIdle
    /\ CtorIdle
    /\ StoreIdle
    /\ validator \in StrategyValidators \cup CtlValidators
    /\ subject \in Subjects
    /\ validator \in CtlValidators => subject.type # "list"
    /\ outcome = Pending

\* self.validator.validate(data)
StrategyValidate ==
    /\ validator \in StrategyValidators
    /\ outcome = Pending
    /\ outcome' = DataFrameValidate(subject, RequiredOf(validator),
                                    TypeOrderOf(validator), TypesOf(validator))
    /\ UNCHANGED <<allocVars, pipeVars, ctorVars, storeVars, validator, subject>>

\* generator.validate() on the data the generator holds
CtlValidate ==
    /\ validator \in CtlValidators
    /\ outcome = Pending
    /\ outcome' = IF validator = "EmploymentGenerator.validate"
                  THEN CtlEmpValidate(subject)
                  ELSE CtlInvValidate(subject)
    /\ UNCHANGED <<allocVars, pipeVars, ctorVars, storeVars, validator, subject>>

ValidateNext == StrategyValidate \/ CtlValidate

SpecValidate == ValidateInit /\ [][ValidateNext]_vars

\* C14: on a DataFrame, DataFrameValidationStrategy.validate returns True
\* exactly when no required column is missing and no present column listed in
\* column_types has another dtype; otherwise it raises ValidationError whose
\* details hold the set of missing columns or a column of the wrong dtype.
\* It never returns False, and what is not a DataFrame raises ValidationError.
C14_TrueOrValidationError ==
    (validator \in StrategyValidators /\ outcome # Pending) =>
        /\ outcome.result \in {"True", "ValidationError"}
        /\ subject.type # "DataFrame" => outcome.result = "ValidationError"
        /\ subject.type = "DataFrame" =>
              LET cols == DOMAIN subject.dtypes
                  missing == RequiredOf(validator) \ cols
                  wrong == {c \in DOMAIN TypesOf(validator) \cap cols :
                               subject.dtypes[c] # TypesOf(validator)[c]}
              IN  /\ outcome.result = "True" <=> (missing = {} /\ wrong = {})
                  /\ outcome.result = "ValidationError" =>
                        /\ outcome.has_details
                        /\ \/ missing # {} /\ outcome.missing_columns = missing
                           \/ missing = {} /\ outcome.column \in wrong

\* a frame with every required column and two columns of the wrong dtype was
\* rejected with the first of them in the details
C14_Witness ==
    /\ validator = "InvestmentDataGenerator.validator"
    /\ outcome.result = "ValidationError"
    /\ outcome.column = "salary"
    /\ subject.dtypes["fraud_type"] = "object"

\* the final validation of each investment generator
InvestmentValidators ==
    {"InvestmentDataGenerator.validator", "InvestmentGenerator.validate"}

\* a record breaks a relation between the columns it holds
BreaksRelation(row) ==
    \/ /\ {"stocks", "bonds", "cash", "real_estate"} \subseteq DOMAIN row
       /\ ~IsClose(AllocationSum(row), One)
    \/ /\ {"reported_income", "salary"} \subseteq DOMAIN row
       /\ row["reported_income"] > row["salary"]
    \/ /\ {"reported_deductions", "true_deductions"} \subseteq DOMAIN row
       /\ row["reported_deductions"] < row["true_deductions"]

\* C15: the final validation of an investment dataset raises ValidationError
\* whenever a required column is missing, the allocation columns of a record
\* do not sum to 1 within tolerance, reported_income > salary or
\* reported_deductions < true_deductions.
C15_ViolationRaisesValidationError ==
    (/\ validator \in InvestmentValidators
     /\ outcome # Pending
     /\ subject.type = "DataFrame"
     /\ \/ ~((IF validator \in StrategyValidators THEN InvestmentRequired
              ELSE CtlInvRequired) \subseteq DOMAIN subject.dtypes)
        \/ \E row \in Rows(subject.rows) : BreaksRelation(row))
        => outcome.result = "ValidationError"

\* C16: whatever EmploymentDataGenerator.generate did, a raise leaves nothing
\* returned, and the data save_industry_dataset persists is a complete
\* dataset: a frame with every required column, the one generate returned.
C16_AllOrNothing ==
    kind = "EmploymentDataGenerator" =>
        /\ pc = "raised" => returned[run] = <<>>
        /\ saved.written =>
              /\ EmploymentRequired \subseteq saved.columns
              /\ \E r \in Runs : saved.rows = returned[r]

----------------------------------------------------------------------------
(* InvestmentDataGenerator(config), for a configuration that lacks some of  *)
(* the keys the constructor requires.  A key is the tuple of its path.      *)

MaxMissing == 2

\* the per-level keys the constructor reads
LevelKeys == {"investment_rate", "luxury_spending", "travel_spending"}

RequiredPaths ==
    {<<"fraud_scenarios">>}
    \cup {<<"fraud_scenarios", t, "probability">> : t \in Rows(FraudTypes)}
    \cup {<<"experience_levels", level, k>> : level \in Rows(ExperienceLevels), k \in LevelKeys}

Configs == {m \in SUBSET RequiredPaths : Cardinality(m) <= MaxMissing}

Constructed == [state |-> "constructed", error |-> "none", text |-> "", path |-> <<>>]

NotConstructed == [Constructed EXCEPT !.state = "pending"]

\* raise ValueError(text), the text naming the dotted path or not
RaiseValueError(text, path) ==
    [state |-> "raised", error |-> "ValueError", text |-> text, path |-> path]

\* the first position of seq whose element satisfies the test, 0 if none
First(seq, test(_)) ==
    LET hits == {i \in 1..Len(seq) : test(seq[i])}
    IN  IF hits = {} THEN 0 ELSE CHOOSE i \in hits : \A j \in hits : i <= j

\* the lifestyle loop of the constructor
LifestyleIndicators(missing) ==
    LET Lacks(level) == \/ <<"experience_levels", level, "luxury_spending">> \in missing
                        \/ <<"experience_levels", level, "travel_spending">> \in missing
        i == First(ExperienceLevels, Lacks)
    IN  IF i # 0
        THEN RaiseValueError(
                 "Required luxury_spending and travel_spending not found in config for {level}",
                 <<>>)
        ELSE Constructed

\* the investment_rate loop of the constructor
InvestmentRates(missing) ==
    LET Lacks(level) == <<"experience_levels", level, "investment_rate">> \in missing
        i == First(ExperienceLevels, Lacks)
    IN  IF i # 0
        THEN RaiseValueError("Required {path} not found in config",
                             <<"experience_levels", ExperienceLevels[i], "investment_rate">>)
        ELSE LifestyleIndicators(missing)

\* the fraud probability loop of the constructor
FraudProbabilityLoop(missing) ==
    LET Lacks(t) == <<"fraud_scenarios", t, "probability">> \in missing
        i == First(FraudTypes, Lacks)
    IN  IF i # 0
        THEN RaiseValueError("Required {path} not found in config",
                             <<"fraud_scenarios", FraudTypes[i], "probability">>)
        ELSE InvestmentRates(missing)

\* InvestmentDataGenerator.__init__
InvestmentDataGeneratorInit(missing) ==
    IF <<"fraud_scenarios">> \in missing
    THEN RaiseValueError("Required {path} settings not found in config", <<"fraud_scenarios">>)
    ELSE FraudProbabilityLoop(missing)

ConstructInit ==
    /\ AllocIdle
    /\ PipeIdle
    /\ ValIdle
    /\ StoreIdle
    /\ config \in Configs
    /\ instance = NotConstructed
    /\ files = <<>>
    /\ manager = [config |-> [type |-> "NoneType"], path |-> "none"]
    /\ loaded = [type |-> "NoneType"]
    /\ reading = [op |-> "none"]
    /\ generator = [kind |-> "none"]

Construct ==
    /\ instance = NotConstructed
    /\ instance' = InvestmentDataGeneratorInit(config)
    /\ UNCHANGED <<allocVars, pipeVars, valVars, storeVars, config, cfgVars>>

SpecConstruct == ConstructInit /\ [][Construct]_vars

\* C17: InvestmentDataGenerator(config) with a required key missing raises
\* ConfigurationError whose message names a missing dotted path, and produces
\* no object.
C17_RaisesConfigurationError ==
    (instance # NotConstructed /\ config # {}) =>
        /\ instance.state = "raised"
        /\ instance.error = "ConfigurationError"
        /\ instance.path \in config

----------------------------------------------------------------------------
(* Claims about the salaries of EmploymentDataGenerator *)

\* the datasets EmploymentDataGenerator.generate returned
EmploymentDataRows ==
    IF kind = "EmploymentDataGenerator" THEN ReturnedRows ELSE {}

----------------------------------------------------------------------------
(* Claims about EmploymentGenerator.validate *)

\* C19: validate() returns True on a dataset the generator's generate
\* produced, fraud scenarios included, and False when the data is None or a
\* frame lacking a required column.
C19_ValidateGenerated ==
    validator = "EmploymentGenerator.validate" =>
        /\ outcome.result \in {"True", "False"}
        /\ subject.type = "NoneType" => outcome.result = "False"
        /\ subject.type = "DataFrame" =>
              /\ ~(EmploymentColumns \subseteq DOMAIN subject.dtypes) =>
                    outcome.result = "False"
              /\ (/\ EmploymentColumns \subseteq DOMAIN subject.dtypes
                  /\ \E r \in Runs : subject.rows = returned[r]) =>
                    outcome.result = "True"

\* validate() returned True on a generated dataset with a record whose
\* reported salary was lowered
C19_Witness ==
    /\ validator = "EmploymentGenerator.validate"
    /\ outcome.result = "True"
    /\ subject.type = "DataFrame"
    /\ \E row \in Rows(subject.rows) :
           /\ row["fraud_type"] = "salary_misreporting"
           /\ row["reported_salary"] < row["salary"]

----------------------------------------------------------------------------
(* Claims about the categories of the returned records *)

----------------------------------------------------------------------------
(* DatasetGenerator (controllers package): save, save_to_dataset,           *)
(* get_dataset and sample_data of an EmploymentGenerator or an              *)
(* InvestmentGenerator, called before generate, after generate returned     *)
(* and, for an EmploymentGenerator, after it raised.                        *)

\* the names save_to_dataset stores under, and those get_dataset looks up
StoredNames == {"test_dataset"}

LookupNames == StoredNames \cup {"non_existent"}

NoneValue == [type |-> "NoneType"]

\* self.data: None until InvestmentGenerator.generate assigns it, and
\* pd.DataFrame() from the constructor of EmploymentGenerator on
SelfData ==
    IF kind = "InvestmentGenerator" /\ pc # "returned" THEN NoneValue
    ELSE FrameOf(data)

\* self.data.empty
Empty(x) == x.rows = <<>> \/ DOMAIN x.dtypes = {}

\* between two calls of generate
Quiescent ==
    /\ Package(kind) = "controllers"
    /\ \/ run = 1 /\ pc = "emp_industry"
       \/ pc = "returned"
       \/ pc = "raised" /\ kind = "EmploymentGenerator"

Called(op, name, error, frame) ==
    [op |-> op, name |-> name, error |-> error, frame |-> frame]

StoreFixed == UNCHANGED <<allocVars, pipeVars, valVars, ctorVars>>

\* save_to_dataset(dataset_name)
SaveToDataset ==
    /\ Quiescent
    /\ \E name \in StoredNames :
          IF SelfData = NoneValue
          THEN /\ call' = Called("save_to_dataset", name, "ValueError", NoneValue)
               /\ UNCHANGED datasets
          ELSE /\ datasets' = (name :> [frame |-> SelfData, run |-> run, pc |-> pc])
                              @@ datasets
               /\ call' = Called("save_to_dataset", name, "none", datasets'[name].frame)
    /\ StoreFixed

\* what get_dataset(dataset_name) returns
GetDatasetMut(name) == SelfData

GetDataset(name) == datasets[name].frame

\* get_dataset(dataset_name)
GetDatasetCall ==
    /\ Quiescent
    /\ \E name \in LookupNames :
          call' = IF name \notin DOMAIN datasets
                  THEN Called("get_dataset", name, "KeyError", NoneValue)
                  ELSE Called("get_dataset", name, "none", GetDataset(name))
    /\ UNCHANGED datasets
    /\ StoreFixed

\* save(path, format)
SaveCall ==
    /\ Quiescent
    /\ \E format \in {"csv", "invalid"} :
          call' = IF SelfData = NoneValue \/ Empty(SelfData)
                  THEN Called("save", format, "ValueError", NoneValue)
                  ELSE IF format = "invalid"
                  THEN Called("save", format, "ValueError", SelfData)
                  ELSE Called("save", format, "none", SelfData)
    /\ UNCHANGED datasets
    /\ StoreFixed

\* sample_data(n): min(n, len(self.data)) records of the data
SampleData ==
    /\ Quiescent
    /\ call' = IF SelfData = NoneValue
               THEN Called("sample_data", "", "ValueError", NoneValue)
               ELSE Called("sample_data", "", "none", SelfData)
    /\ UNCHANGED datasets
    /\ StoreFixed

StoreInit ==
    /\ PipeStart
    /\ Package(kind) = "controllers"
    /\ fraudProbability = FraudProbability

StoreNext ==
    \/ CtlEmpIndustry \/ CtlEmpExperience \/ CtlEmpSalary \/ CtlEmpFraudStage
    \/ CtlInvPortfolio \/ CtlInvReturns \/ CtlInvFraudStage \/ CtlInvLifestyle
    \/ GenerateAgain
    \/ SaveToDataset \/ GetDatasetCall \/ SaveCall \/ SampleData

SpecStore == StoreInit /\ [][StoreNext]_vars

\* C21: what is stored under a name is the data as it was when it was
\* stored, whatever generate did since; get_dataset returns the dataset
\* stored under the name, and raises KeyError for a name never stored.
C21_StoredDatasets ==
    /\ \A name \in DOMAIN datasets :
          datasets[name].pc = "returned" =>
              datasets[name].frame.rows = returned[datasets[name].run]
    /\ call.op = "get_dataset" =>
          /\ call.name \notin DOMAIN datasets => call.error = "KeyError"
          /\ call.name \in DOMAIN datasets =>
                /\ call.error = "none"
                /\ call.frame = datasets[call.name].frame
    /\ call.op = "save_to_dataset" /\ call.error = "none" =>
          call.frame = datasets[call.name].frame

\* a dataset stored after the first generate, looked up after a later
\* generate returned another dataset
C21_Witness ==
    /\ call.op = "get_dataset" /\ call.error = "none"
    /\ datasets[call.name].run = 1
    /\ run = 3 /\ pc = "returned"
    /\ returned[3] # returned[1]
    /\ call.frame.rows = returned[1]

\* C22: save, save_to_dataset and sample_data called before generate raise
\* ValueError.
C22_ValueErrorBeforeGenerate ==
    (run = 1 /\ pc = "emp_industry" /\ call.op \in {"save", "save_to_dataset", "sample_data"})
        => call.error = "ValueError"

----------------------------------------------------------------------------
(* Claims about the order of the stages of generate *)

\* the stages of InvestmentDataGenerator.generate, the employment generator's
\* own fraud injection and validation included
StageOrder ==
    <<"emp_industry", "emp_experience", "emp_salary", "emp_fraud", "emp_validate",
      "inv_portfolio", "inv_returns", "inv_lifestyle", "inv_fraud", "inv_validate",
      "returned">>

Rank(stage) == CHOOSE i \in DOMAIN StageOrder : StageOrder[i] = stage

LifestyleFields ==
    {"luxury_spending", "travel_spending", "lifestyle_ratio", "suspicious_lifestyle"}

\* C23: a run of InvestmentDataGenerator.generate goes through industry,
\* experience, salary, portfolio, returns, lifestyle, fraud injection and
\* validation in this order, each stage once, unless a stage raises; the
\* fraud injection works on records that hold the lifestyle fields, and
\* generate returns from the validation only.
C23_StageOrder ==
    [][(kind = "InvestmentDataGenerator" /\ pc' # pc) =>
          \/ pc' = "raised"
          \/ pc' = "emp_industry" /\ pc \in {"returned", "raised"}
          \/ /\ pc \notin {"returned", "raised"}
             /\ Rank(pc') = Rank(pc) + 1
             /\ pc = "inv_fraud" =>
                   \A row \in Rows(data) : LifestyleFields \subseteq DOMAIN row]_vars

\* a run of InvestmentDataGenerator.generate that returned records
C23_Witness ==
    /\ kind = "InvestmentDataGenerator"
    /\ pc = "returned"
    /\ returned[run] # <<>>
    /\ \A row \in Rows(returned[run]) : LifestyleFields \subseteq DOMAIN row

----------------------------------------------------------------------------
(* Claims about the fraud injection of the controllers package *)

\* C24: EmploymentGenerator.add_fraud_scenarios changes the level of a record
\* only from entry to mid, together with fraud_type "experience_inflation";
\* a record gets that type only this way, and a record whose level was mid or
\* senior keeps its level and, unless its salary is misreported, its
\* fraud_type "none".
C24_InflationOnlyFromEntry ==
    [][(Package(kind) = "controllers" /\ pc = "emp_fraud" /\ pc' # pc) =>
          /\ Len(data') = Len(data)
          /\ \A i \in 1..Len(data) :
                LET before == data[i]["experience_level"]
                    after == data'[i]["experience_level"]
                    type == data'[i]["fraud_type"]
                IN  /\ type = "experience_inflation" <=> (before = "entry" /\ before # after)
                    /\ before # after => (before = "entry" /\ after = "mid")
                    /\ before # "entry" =>
                          /\ after = before
                          /\ type \in {"none", "salary_misreporting"}
                          /\ type = "salary_misreporting" =>
                                data'[i]["reported_salary"] < data'[i]["salary"]]_vars

\* a returned dataset with a mid or senior record the inflation branch
\* flagged and left as it was
C24_Witness ==
    /\ kind = "EmploymentGenerator"
    /\ pc = "returned"
    /\ \E row \in Rows(returned[run]) :
          /\ row["is_fraudulent"]
          /\ row["fraud_type"] = "none"
          /\ row["experience_level"] # "entry"

\* InvestmentGenerator (controllers package) alone, its source repeating
\* after one more output so that every branch of its two loops is taken
InvestmentInit ==
    /\ AllocIdle /\ ValIdle /\ CtorIdle /\ StoreIdle
    /\ kind = "InvestmentGenerator"
    /\ size \in 1..MaxSize
    /\ prng \in [{"seed", "os"} -> [1..StreamLen + 1 -> 0..UMax]]
    /\ prng["os"] = prng["seed"]
    /\ npRandom = [seed |-> "seed", pos |-> 0]
    /\ rngPos = FreshRng
    /\ run = 1
    /\ pc = "emp_industry"
    /\ data = <<>>
    /\ returned = [r \in Runs |-> <<>>]
    /\ genError = [r \in Runs |-> "none"]
    /\ saved = NotSaved
    /\ fraudProbability = FraudProbability

InvestmentNext ==
    \/ CtlEmpIndustry \/ CtlEmpExperience \/ CtlEmpSalary \/ CtlEmpFraudStage
    \/ CtlInvPortfolio \/ CtlInvReturns \/ CtlInvFraudStage \/ CtlInvLifestyle
    \/ GenerateAgain

SpecInvestment == InvestmentInit /\ [][InvestmentNext]_vars

\* the records InvestmentGenerator.generate returned
InvestmentRows ==
    IF kind = "InvestmentGenerator" THEN ReturnedRows ELSE {}

\* spending as drawn for the level, not inflated (to the cent)
PlainSpending(row) ==
    /\ 1000 * row["luxury_spending"]
          <= row["salary"] * LuxuryRange(row["experience_level"])[2] + 5000
    /\ 1000 * row["travel_spending"]
          <= row["salary"] * TravelRange(row["experience_level"])[2] + 5000

\* C25: a record InvestmentGenerator.generate returned carries one of the
\* three investment fraud types or none; reported_income is below salary
\* for "underreported_income" and equal to it otherwise, reported_deductions
\* exceed true_deductions for "overstated_deductions" and both are 0
\* otherwise, and spending above what the level draws occurs only with
\* "lifestyle_mismatch", so never on a record the earlier injection marked.
C25_OneInvestmentFraud ==
    \A row \in InvestmentRows :
        /\ row["fraud_type"] \in {"none", "underreported_income",
                                  "overstated_deductions", "lifestyle_mismatch"}
        /\ row["is_fraudulent"] <=> row["fraud_type"] # "none"
        /\ IF row["fraud_type"] = "underreported_income"
           THEN row["reported_income"] < row["salary"]
           ELSE row["reported_income"] = row["salary"]
        /\ IF row["fraud_type"] = "overstated_deductions"
           THEN row["reported_deductions"] > row["true_deductions"]
           ELSE row["reported_deductions"] = 0 /\ row["true_deductions"] = 0
        /\ row["fraud_type"] # "lifestyle_mismatch" => PlainSpending(row)

\* a returned record with inflated spending and one with underreported income
C25_Witness ==
    /\ \E row \in InvestmentRows :
          row["fraud_type"] = "lifestyle_mismatch" /\ ~PlainSpending(row)
    /\ \E row \in InvestmentRows : row["fraud_type"] = "underreported_income"

\* C26: a record whose reported_salary the employment generator's fraud
\* injection lowered is still is_fraudulent, with a fraud_type other than
\* "none", in the dataset InvestmentGenerator.generate returns.
C26_EmploymentLabelsKept ==
    \A row \in InvestmentRows :
        row["reported_salary"] < row["salary"] =>
            row["is_fraudulent"] /\ row["fraud_type"] # "none"

\* C27: with the default asset bounds _generate_allocation does not raise,
\* whatever the draws of its attempts are.
C27_DefaultNeverRaises ==
    assetClasses = DefaultAssets => allocPc # "raised"

-----------------------------------------------------------------------------
(* ConfigManager and the generators built with an explicit configuration.   *)
(* A configuration is the set of its top-level sections.                    *)

Sections ==
    {"test_settings", "experience_levels", "fraud_scenarios", "random_seed",
     "salary_distribution"}

\* required_sections of _validate_config
RequiredSections ==
    {"test_settings", "experience_levels", "fraud_scenarios", "random_seed"}

Dict(keys) == [type |-> "dict", keys |-> keys]

FileMissing == [type |-> "missing"]

InvalidJson == [type |-> "invalid JSON"]

\* a file: absent, not JSON, or an object with all sections but at most one
Contents ==
    {FileMissing, InvalidJson}
    \cup {Dict(Sections \ m) : m \in {{}} \cup {{x} : x \in Sections}}

DefaultPath == "data/configs/settings.json"

Paths == {DefaultPath, "custom.json"}

\* the configurations passed to a constructor
ExplicitConfigs ==
    {Dict(Sections), Dict(Sections \ {"salary_distribution"}),
     Dict(Sections \ {"fraud_scenarios"}), Dict(Sections \ {"experience_levels"})}

\* _validate_config on self._config
ValidateConfig(c) ==
    IF RequiredSections \subseteq c.keys THEN "none" ELSE "ConfigurationError"

\* _load_config with _config_path = path: the new _config and the error raised
LoadConfig(m, path) ==
    IF path = "none" \/ files[path] \in {FileMissing, InvalidJson}
    THEN [config |-> m.config, error |-> "ConfigurationError"]
    ELSE [config |-> files[path], error |-> ValidateConfig(files[path])]

\* the manager and the history after _load_config
Load(path) ==
    LET r == LoadConfig(manager, path)
    IN  /\ manager' = [config |-> r.config, path |-> path]
        /\ loaded' = IF r.error = "none" THEN r.config ELSE loaded

\* config_manager.initialize(config_path)
Initialize ==
    /\ \E path \in Paths : Load(path)
    /\ UNCHANGED <<files, reading, generator>>
    /\ UNCHANGED <<allocVars, pipeVars, valVars, storeVars, config, instance>>

\* config_manager.reload()
Reload ==
    /\ Load(manager.path)
    /\ UNCHANGED <<files, reading, generator>>
    /\ UNCHANGED <<allocVars, pipeVars, valVars, storeVars, config, instance>>

\* the config property: ConfigurationError, or a copy of _config
ConfigProperty(m) ==
    IF m.config = NoneValue
    THEN [error |-> "ConfigurationError", value |-> NoneValue]
    ELSE [error |-> "none", value |-> m.config]

\* config_manager.config is read
ReadConfig ==
    /\ reading' = [op |-> "config",
                   error |-> ConfigProperty(manager).error,
                   value |-> ConfigProperty(manager).value,
                   valid |-> loaded]
    /\ UNCHANGED <<files, manager, loaded, generator>>
    /\ UNCHANGED <<allocVars, pipeVars, valVars, storeVars, config, instance>>

\* FraudScenarioGenerator(config), then the sections the constructors index:
\* the exception the constructor raises, or "none"
ConstructorError(c, r) ==
    IF manager.config = NoneValue /\ r.error # "none" THEN "ConfigurationError"
    ELSE IF "fraud_scenarios" \notin c.keys THEN "ValueError"
    ELSE IF "experience_levels" \notin c.keys THEN "KeyError"
    ELSE "none"

\* EmploymentDataGenerator(config) or InvestmentDataGenerator(config): an
\* uninitialized config_manager is initialized from the default path
NewGenerator ==
    /\ \E k \in {"EmploymentDataGenerator", "InvestmentDataGenerator"}, c \in ExplicitConfigs :
        LET r == LoadConfig(manager, DefaultPath)
        IN  /\ generator' = [kind |-> k, config |-> c,
                             error |-> ConstructorError(c, r), results |-> {}]
            /\ IF manager.config = NoneValue
               THEN Load(DefaultPath)
               ELSE UNCHANGED <<manager, loaded>>
    /\ UNCHANGED <<files, reading>>
    /\ UNCHANGED <<allocVars, pipeVars, valVars, storeVars, config, instance>>

\* the wrapper of validate_config(config_keys): what it raises, or "none"
ValidateConfigKeys(config_keys) ==
    IF ConfigProperty(manager).error # "none" THEN ConfigProperty(manager).error
    ELSE IF ~(config_keys \subseteq manager.config.keys) THEN "ValidationError"
    ELSE "none"

\* EmploymentDataGenerator.generate on an instance built with c
EmploymentGenerate(c) ==
    IF ValidateConfigKeys({"experience_levels", "salary_distribution"}) # "none"
    THEN ValidateConfigKeys({"experience_levels", "salary_distribution"})
    ELSE IF "salary_distribution" \notin c.keys THEN "KeyError"
    ELSE "returned"

\* InvestmentDataGenerator.generate on an instance built with c
InvestmentGenerate(c) ==
    IF ValidateConfigKeys({"experience_levels", "fraud_scenarios"}) # "none"
    THEN ValidateConfigKeys({"experience_levels", "fraud_scenarios"})
    ELSE EmploymentGenerate(c)

\* generate(size) on the instance, its result added to those seen so far
GenerateWithConfig ==
    /\ generator.kind # "none"
    /\ generator.error = "none"
    /\ generator' =
          [generator EXCEPT !.results =
              @ \cup {IF generator.kind = "EmploymentDataGenerator"
                      THEN EmploymentGenerate(generator.config)
                      ELSE InvestmentGenerate(generator.config)}]
    /\ UNCHANGED <<files, manager, loaded, reading>>
    /\ UNCHANGED <<allocVars, pipeVars, valVars, storeVars, config, instance>>

ConfigInit ==
    /\ AllocIdle /\ PipeIdle /\ ValIdle /\ StoreIdle
    /\ config = {}
    /\ instance = "none"
    /\ files \in [Paths -> Contents]
    /\ manager = [config |-> NoneValue, path |-> "none"]
    /\ loaded = NoneValue
    /\ reading = [op |-> "none"]
    /\ generator = [kind |-> "none"]

ConfigNext ==
    \/ Initialize \/ Reload \/ ReadConfig \/ NewGenerator \/ GenerateWithConfig

SpecConfig == ConfigInit /\ [][ConfigNext]_vars

\* C28: config_manager.config raises ConfigurationError before any load, and
\* what it returns is the configuration of the last load that did not raise,
\* never the content a load rejected.
C28_ConfigOnlyAfterLoad ==
    reading.op = "config" =>
        IF reading.valid = NoneValue
        THEN reading.error = "ConfigurationError"
        ELSE reading.error = "none" => reading.value = reading.valid

\* C30: generate on a generator built with an explicit configuration has the
\* same result (a dataset, or the same error) whatever config_manager holds
\* when it is called.
C30_OwnConfigOnly ==
    (generator.kind # "none" /\ generator.error = "none") =>
        Cardinality(generator.results) <= 1

\* C29: an instance of the controllers package, built with the same
\* configuration and seed as another one and calling generate(size) for the
\* first time after the other instance's generate ran, returns the dataset
\* the other instance returned from its own first call.
C29_UnaffectedByOtherInstance ==
    (Package(kind) = "controllers" /\ run = 2 /\ pc = "returned"
        /\ genError[1] = "none") =>
        returned[2] = returned[1]

====
